---- MODULE Spec2Model ----
(***************************************************************************)
(* Request-scoped media pipeline of the Video Shorts Processing API:       *)
(* routes/process.ts (processShorts, inspect, parseProcessOptions, multer  *)
(* storage), server.ts (upload middleware, error middleware), utils/tmp.ts *)
(* (workspace), utils/ffprobe.ts (getVideoMetadata), utils/validate.ts     *)
(* (validateShorts) and utils/ffmpeg.ts (convertToShorts).                 *)
(*                                                                         *)
(* Units: pixels, whole seconds, and thousandths for the aspect tolerance. *)
(* A JavaScript number is a record [nan, v]; an optional JSON field is a   *)
(* sequence of length 0 or 1; a file name is a sequence of one-character   *)
(* strings; an Error message is the set of the fragments it contains that  *)
(* the route's classifier looks for with String.includes.                  *)
(*                                                                         *)
(* Spec follows one request through the pipeline; SpecLive is its          *)
(* transcode step under the fairness the event loop provides; SpecConc     *)
(* interleaves NumReq requests over the shared temp root; SpecUnit applies *)
(* single functions (validateShorts, rmDirRecursive, getFfmpegTimeoutSec,  *)
(* the file-name functions, getVideoMetadata, parseProcessOptions, the     *)
(* exit messages) to inputs drawn from finite sets.                        *)
(***************************************************************************)
EXTENDS Integers, Sequences, FiniteSets, TLC

VARIABLES
    route,      \* "none" | "process" | "inspect": the endpoint that was hit
    impl,       \* which convertToShorts source is linked: "guarded" | "legacy"
    pc,         \* position of the request in middleware / handler
    upload,     \* the multipart request as sent by the client
    file,       \* req.file: <<>> or <<[name, size]>>
    dirExists,  \* the request's uniqueTmpDir exists on disk
    files,      \* workspace content: file name -> content tag
    rm,         \* rmDirRecursive(tmpDir): calls made, and calls that found the directory
    resp,       \* the HTTP response
    options,    \* parseProcessOptions result
    meta,       \* getVideoMetadata result
    validation, \* validateShorts result
    outcome,    \* ConversionOutcome: outPath, converted, finalMeta, transcodes
    ff,         \* the convertToShorts invocation: promise, timer, child process
    stream,     \* the fs.ReadStream piped into the response
    spawns,     \* child processes started so far: [ffprobe, ffmpeg]
    conc,       \* several requests over one temp root: [reqs, root, issued]
    unit        \* one function under examination: [fn, in, out]

vars == <<route, impl, pc, upload, file, dirExists, files, rm, resp,
          options, meta, validation, outcome, ff, stream, spawns, conc, unit>>

-----------------------------------------------------------------------------
(* Bounds of the model *)

\* number of chunks the file stream delivers before 'end'
StreamChunks == 2
\* number of requests that are in flight together
NumReq == 2
\* largest number of streams in the prober's output
MaxStreams == 3

-----------------------------------------------------------------------------
(* Program constants *)

MAX_FILE_SIZE_MB == 200
MAX_DIM == 4096
MIN_DIM == 1
MAX_DURATION_LIMIT == 300
MIN_DURATION_LIMIT == 1
\* tolerance bounds 0.001 and 0.5, in thousandths
MIN_TOLERANCE == 1
MAX_TOLERANCE == 500
SANITIZE_MAX_LEN == 200
TARGET_ASPECT_NUM == 9
TARGET_ASPECT_DEN == 16
\* utils/ffmpeg.ts: seconds
FFMPEG_TIMEOUT_SEC_DEFAULT == 600
MIN_TIMEOUT_SEC == 60
MAX_TIMEOUT_SEC == 3600
\* utils/ffmpeg.ts: characters of stderr kept by slice(-2000)
STDERR_TAIL == 2000

-----------------------------------------------------------------------------
(* JavaScript numbers *)

Num(x) == [nan |-> FALSE, v |-> x]
NaN == [nan |-> TRUE, v |-> 0]

\* a multipart text field: absent, a numeric string, or a non-numeric string
Absent == [kind |-> "absent", v |-> 0, s |-> ""]
NumStr(x) == [kind |-> "num", v |-> x, s |-> ""]
Text(t) == [kind |-> "text", v |-> 0, s |-> t]

\* Number(x): undefined and non-numeric text give NaN, "" gives 0
ToNumber(raw) ==
    CASE raw.kind = "num" -> Num(raw.v)
      [] raw.kind = "text" /\ raw.s = "" -> Num(0)
      [] OTHER -> NaN

\* Math.min / Math.max: NaN is contagious
MathMin(a, b) == IF a.nan \/ b.nan THEN NaN ELSE IF a.v <= b.v THEN a ELSE b
MathMax(a, b) == IF a.nan \/ b.nan THEN NaN ELSE IF a.v >= b.v THEN a ELSE b

\* x || d : NaN and 0 are falsy
OrDefault(x, d) == IF x.nan \/ x.v = 0 THEN d ELSE x

\* x ?? d : only null / undefined select d, and Number() returns neither
NullishDefault(x, d) == x

-----------------------------------------------------------------------------
(* types.ts *)

DEFAULT_PROCESS_OPTIONS ==
    [mode |-> "blur", targetWidth |-> Num(1080), targetHeight |-> Num(1920),
     maxDurationSec |-> Num(60), tolerance |-> Num(80), forceConvert |-> FALSE]

(* routes/process.ts: parseProcessOptions *)
parseProcessOptions(body) ==
    [mode |-> IF body.mode.kind = "text" /\ body.mode.s \in {"pad", "blur"}
              THEN body.mode.s ELSE DEFAULT_PROCESS_OPTIONS.mode,
     targetWidth |->
        MathMax(Num(MIN_DIM), MathMin(Num(MAX_DIM),
            OrDefault(ToNumber(body.targetWidth), DEFAULT_PROCESS_OPTIONS.targetWidth))),
     targetHeight |->
        MathMax(Num(MIN_DIM), MathMin(Num(MAX_DIM),
            OrDefault(ToNumber(body.targetHeight), DEFAULT_PROCESS_OPTIONS.targetHeight))),
     maxDurationSec |->
        MathMax(Num(MIN_DURATION_LIMIT), MathMin(Num(MAX_DURATION_LIMIT),
            OrDefault(ToNumber(body.maxDurationSec), DEFAULT_PROCESS_OPTIONS.maxDurationSec))),
     tolerance |->
        MathMax(Num(MIN_TOLERANCE), MathMin(Num(MAX_TOLERANCE),
            NullishDefault(ToNumber(body.tolerance), DEFAULT_PROCESS_OPTIONS.tolerance))),
     forceConvert |-> body.forceConvert.kind = "text" /\ body.forceConvert.s = "true"]

-----------------------------------------------------------------------------
(* utils/validate.ts: validateShorts *)

Abs(x) == IF x < 0 THEN 0 - x ELSE x

\* Math.abs(aspect - 9/16) <= tolerance, on the exact quotients; any
\* comparison with NaN is false
AspectWithin(aspect, tolerance) ==
    /\ ~tolerance.nan
    /\ aspect.d > 0
    /\ Abs(TARGET_ASPECT_DEN * aspect.n - TARGET_ASPECT_NUM * aspect.d) * 1000
          <= tolerance.v * TARGET_ASPECT_DEN * aspect.d

LessEq(a, b) == ~a.nan /\ ~b.nan /\ a.v <= b.v
Greater(a, b) == ~a.nan /\ ~b.nan /\ a.v > b.v

\* an evaluator that counts equal dimensions as vertical
validateShortsSquareVertical(m, o) ==
    LET isVertical == ~m.height.nan /\ ~m.width.nan /\ m.height.v >= m.width.v
        aspectOk == AspectWithin(m.aspectRatio, o.tolerance)
        durationOk == LessEq(m.durationSec, o.maxDurationSec)
        r1 == IF ~isVertical THEN <<"NOT_VERTICAL">> ELSE <<>>
        r2 == IF ~aspectOk THEN Append(r1, "ASPECT_RATIO_MISMATCH") ELSE r1
        r3 == IF ~durationOk THEN Append(r2, "DURATION_EXCEEDED") ELSE r2
    IN [isVertical |-> isVertical, aspectOk |-> aspectOk, durationOk |-> durationOk,
        shortsEligible |-> durationOk /\ isVertical /\ aspectOk,
        reasons |-> r3]

\* an evaluator that reports the duration before the geometry
validateShortsDurationFirst(m, o) ==
    LET isVertical == Greater(m.height, m.width)
        aspectOk == AspectWithin(m.aspectRatio, o.tolerance)
        durationOk == LessEq(m.durationSec, o.maxDurationSec)
        r1 == IF ~durationOk THEN <<"DURATION_EXCEEDED">> ELSE <<>>
        r2 == IF ~isVertical THEN Append(r1, "NOT_VERTICAL") ELSE r1
        r3 == IF ~aspectOk THEN Append(r2, "ASPECT_RATIO_MISMATCH") ELSE r2
    IN [isVertical |-> isVertical, aspectOk |-> aspectOk, durationOk |-> durationOk,
        shortsEligible |-> durationOk /\ isVertical /\ aspectOk,
        reasons |-> r3]

validateShorts(m, o) ==
    LET isVertical == Greater(m.height, m.width)
        aspectOk == AspectWithin(m.aspectRatio, o.tolerance)
        durationOk == LessEq(m.durationSec, o.maxDurationSec)
        r1 == IF ~isVertical THEN <<"NOT_VERTICAL">> ELSE <<>>
        r2 == IF ~aspectOk THEN Append(r1, "ASPECT_RATIO_MISMATCH") ELSE r1
        r3 == IF ~durationOk THEN Append(r2, "DURATION_EXCEEDED") ELSE r2
    IN [isVertical |-> isVertical, aspectOk |-> aspectOk, durationOk |-> durationOk,
        shortsEligible |-> durationOk /\ isVertical /\ aspectOk,
        reasons |-> r3]

-----------------------------------------------------------------------------
(* File names: sequences of one-character strings (UTF-16 code units) *)

Lower == {"a","b","c","d","e","f","g","h","i","j","k","l","m",
          "n","o","p","q","r","s","t","u","v","w","x","y","z"}
Upper == {"A","B","C","D","E","F","G","H","I","J","K","L","M",
          "N","O","P","Q","R","S","T","U","V","W","X","Y","Z"}
Digit == {"0","1","2","3","4","5","6","7","8","9"}
\* the character class [a-zA-Z0-9._-]
SafeChars == Lower \cup Upper \cup Digit \cup {".", "_", "-"}

S_video == <<"v","i","d","e","o">>
S_mp4 == <<".","m","p","4">>
S_output_mp4 == <<"o","u","t","p","u","t",".","m","p","4">>
S_shorts_ == <<"s","h","o","r","t","s","_">>

\* String.prototype.slice(0, n)
Take(s, n) == IF Len(s) <= n THEN s ELSE SubSeq(s, 1, n)

\* indices of the character c in s
IndicesOf(s, c) == {i \in 1..Len(s) : s[i] = c}
Max(S) == CHOOSE x \in S : \A y \in S : y <= x

RECURSIVE StripTrailingSlashes(_)
StripTrailingSlashes(s) ==
    IF Len(s) > 0 /\ s[Len(s)] = "/" THEN StripTrailingSlashes(SubSeq(s, 1, Len(s) - 1))
    ELSE s

\* the last path component (POSIX separators, trailing separators ignored)
LastComponent(p) ==
    LET q == StripTrailingSlashes(p)
        sl == IndicesOf(q, "/")
    IN IF sl = {} THEN q ELSE SubSeq(q, Max(sl) + 1, Len(q))

\* path.extname: from the last '.' of the last component; '' when there is
\* no dot, when the dot is the component's first character, or for '..'
extname(p) ==
    LET comp == LastComponent(p)
        dots == IndicesOf(comp, ".")
    IN IF dots = {} \/ Max(dots) = 1 \/ comp = <<".", ".">> THEN <<>>
       ELSE SubSeq(comp, Max(dots), Len(comp))

EndsWith(s, suf) ==
    Len(suf) <= Len(s) /\ SubSeq(s, Len(s) - Len(suf) + 1, Len(s)) = suf

\* path.basename(p, ext)
basename(p, ext) ==
    LET comp == LastComponent(p)
    IN IF Len(ext) > 0 /\ ext = p THEN <<>>
       ELSE IF Len(ext) > 0 /\ EndsWith(comp, ext) /\ comp # ext
            THEN SubSeq(comp, 1, Len(comp) - Len(ext))
            ELSE comp

(* utils/tmp.ts: sanitizeFilename *)
sanitizeFilename(name) ==
    LET replaced == [i \in 1..Len(name) |-> IF name[i] \in SafeChars THEN name[i] ELSE "_"]
        cut == Take(replaced, SANITIZE_MAX_LEN)
    IN IF cut = <<>> THEN S_video ELSE cut

\* x || dflt on strings: the empty string is falsy
OrElse(s, dflt) == IF s = <<>> THEN dflt ELSE s

(* routes/process.ts: multer diskStorage filename() *)
storageFilename(originalname) ==
    LET raw == OrElse(originalname, S_video)
        ext == OrElse(extname(raw), S_mp4)
        base == OrElse(basename(raw, ext), S_video)
    IN sanitizeFilename(base) \o ext

(* utils/tmp.ts: outputPath -- the fixed name inside the workspace *)
outputPath == S_output_mp4

(* routes/process.ts: the Content-Disposition file name *)
dispositionFilename(originalname, converted) ==
    LET originalName == OrElse(originalname, S_video)
        ext == OrElse(extname(originalName), S_mp4)
        base == OrElse(basename(originalName, ext), S_video)
        safeBase == sanitizeFilename(base)
    IN IF converted THEN S_shorts_ \o safeBase \o ext ELSE safeBase \o ext

-----------------------------------------------------------------------------
(* utils/ffprobe.ts: getVideoMetadata, the 'close' handler for exit code 0 *)

\* s.width ?? 0
OrZero(opt) == IF opt = <<>> THEN 0 ELSE opt[1]

\* the metadata accumulated by the loop over json.streams
RECURSIVE ScanStreams(_, _, _)
ScanStreams(streams, format, acc) ==
    IF streams = <<>> THEN acc
    ELSE LET s == Head(streams)
             d == IF s.duration # <<>> THEN s.duration ELSE format.duration
             a1 == IF s.codec_type = "video"
                   THEN [acc EXCEPT !.width = OrZero(s.width),
                                    !.height = OrZero(s.height),
                                    !.durationSec = IF d # <<>> THEN d[1] ELSE @]
                   ELSE acc
             a2 == IF s.codec_type = "audio" THEN [a1 EXCEPT !.hasAudio = TRUE] ELSE a1
         IN ScanStreams(Tail(streams), format, a2)

\* a result without the fall-back to the container's duration
parseProbeNoFallback(json) ==
    LET acc == ScanStreams(json.streams, json.format,
                           [width |-> 0, height |-> 0, durationSec |-> 0, hasAudio |-> FALSE])
    IN IF acc.width = 0 \/ acc.height = 0
       THEN [ok |-> FALSE, meta |-> <<>>]
       ELSE [ok |-> TRUE,
             meta |-> <<[width |-> Num(acc.width), height |-> Num(acc.height),
                         durationSec |-> Num(acc.durationSec),
                         aspectRatio |-> [n |-> acc.width, d |-> acc.height],
                         hasAudio |-> acc.hasAudio]>>]

\* the result for parsed ffprobe output: [ok, meta], ok = FALSE is the reject
\* "ffprobe: no video stream or missing width/height"
parseProbe(json) ==
    LET acc == ScanStreams(json.streams, json.format,
                           [width |-> 0, height |-> 0, durationSec |-> 0, hasAudio |-> FALSE])
        dur == IF acc.durationSec <= 0 /\ json.format.duration # <<>>
               THEN json.format.duration[1] ELSE acc.durationSec
    IN IF acc.width = 0 \/ acc.height = 0
       THEN [ok |-> FALSE, meta |-> <<>>]
       ELSE [ok |-> TRUE,
             meta |-> <<[width |-> Num(acc.width), height |-> Num(acc.height),
                         durationSec |-> Num(dur),
                         aspectRatio |-> IF acc.height > 0
                                         THEN [n |-> acc.width, d |-> acc.height]
                                         ELSE [n |-> 0, d |-> 1],
                         hasAudio |-> acc.hasAudio]>>]

-----------------------------------------------------------------------------
(* Error messages: the set of classifier-relevant fragments they contain *)

Includes(msg, fragment) == fragment \in msg

\* utils/ffprobe.ts
MsgProbeSpawnFailed == {"ffprobe", "spawn failed"}
MsgProbeExit(stderr) == {"ffprobe", "exited with code"} \cup stderr
MsgProbeNoVideo == {"ffprobe", "no video stream"}
MsgProbeBadJson == {"ffprobe", "failed to parse JSON"}
\* utils/ffmpeg.ts
MsgFfmpegTimeout == {"ffmpeg", "timeout"}
MsgFfmpegSpawnFailed == {"ffmpeg", "spawn failed"}
MsgFfmpegExit(stderr) == {"ffmpeg", "exited with code"} \cup stderr
MsgFfmpegOutputMissing == {"ffmpeg", "output file missing"}
\* utils/tmp.ts: assertFileSize
MsgFileSize == {"exceeds", "MB"}

\* a catch block without the branch for transcoder errors
classifyProcessNoFfmpegBranch(msg) ==
    IF msg = {"FILE_NOT_VIDEO"} THEN [status |-> 415, error |-> "UNSUPPORTED_MEDIA"]
    ELSE IF Includes(msg, "ffprobe") \/ Includes(msg, "exited with code")
         THEN [status |-> 422, error |-> "PROBE_FAILED"]
    ELSE IF Includes(msg, "exceeds") /\ Includes(msg, "MB")
         THEN [status |-> 400, error |-> "FILE_TOO_LARGE"]
    ELSE [status |-> 500, error |-> "UNKNOWN"]

(* routes/process.ts: the catch block of processShorts *)
classifyProcess(msg) ==
    IF msg = {"FILE_NOT_VIDEO"} THEN [status |-> 415, error |-> "UNSUPPORTED_MEDIA"]
    ELSE IF Includes(msg, "ffprobe") \/ Includes(msg, "exited with code")
         THEN [status |-> 422, error |-> "PROBE_FAILED"]
    ELSE IF Includes(msg, "ffmpeg") \/ Includes(msg, "timeout")
         THEN [status |-> 500, error |-> "CONVERSION_FAILED"]
    ELSE IF Includes(msg, "exceeds") /\ Includes(msg, "MB")
         THEN [status |-> 400, error |-> "FILE_TOO_LARGE"]
    ELSE IF Includes(msg, "Path must be under temp") \/ Includes(msg, "Path traversal")
         THEN [status |-> 400, error |-> "INVALID_PATH"]
    ELSE [status |-> 500, error |-> "UNKNOWN"]

(* routes/process.ts: the catch block of inspect *)
classifyInspect(msg) ==
    IF msg = {"FILE_NOT_VIDEO"} THEN [status |-> 415, error |-> "UNSUPPORTED_MEDIA"]
    ELSE IF Includes(msg, "ffprobe") \/ Includes(msg, "exited with code")
         THEN [status |-> 422, error |-> "PROBE_FAILED"]
    ELSE IF Includes(msg, "exceeds") /\ Includes(msg, "MB")
         THEN [status |-> 400, error |-> "FILE_TOO_LARGE"]
    ELSE [status |-> 500, error |-> "UNKNOWN"]

(* server.ts: the error middleware, for errors of the upload middleware *)
classifyUploadError(err) ==
    IF err = "FILE_NOT_VIDEO" THEN [status |-> 415, error |-> "UNSUPPORTED_MEDIA"]
    ELSE IF err = "LIMIT_FILE_SIZE" THEN [status |-> 400, error |-> "FILE_TOO_LARGE"]
    ELSE IF err = "Unexpected field" THEN [status |-> 400, error |-> "BAD_REQUEST"]
    ELSE [status |-> 500, error |-> "INTERNAL_ERROR"]

-----------------------------------------------------------------------------
(* Inputs of the model *)

S_a_mp4 == <<"a", ".", "m", "p", "4">>
S_a_b_mov == <<"a", " ", "b", ".", "m", "o", "v">>
Names == {<<>>, S_a_mp4, S_output_mp4, S_a_b_mov}

NoFields ==
    [mode |-> Absent, targetWidth |-> Absent, targetHeight |-> Absent,
     maxDurationSec |-> Absent, tolerance |-> Absent, forceConvert |-> Absent]
Bodies ==
    { NoFields,
      [NoFields EXCEPT !.tolerance = NumStr(80)],
      [NoFields EXCEPT !.tolerance = NumStr(80), !.forceConvert = Text("true")],
      [NoFields EXCEPT !.tolerance = NumStr(80), !.mode = Text("pad"),
                       !.targetWidth = NumStr(720), !.targetHeight = NumStr(1280),
                       !.maxDurationSec = NumStr(30)],
      [NoFields EXCEPT !.tolerance = Text("abc"), !.targetWidth = NumStr(5000),
                       !.targetHeight = NumStr(0 - 1), !.maxDurationSec = NumStr(0),
                       !.forceConvert = Text("false")] }

Mimes == {<<"video", "mp4">>, <<"video", "x-foo">>, <<"image", "png">>, <<>>}

GoodUpload(name, body) ==
    [hasFile |-> TRUE, field |-> "file", mime |-> <<"video", "mp4">>, sizeMB |-> 1,
     originalname |-> name, body |-> body]
Uploads ==
    {GoodUpload(n, b) : n \in Names, b \in Bodies}
    \cup {[GoodUpload(S_a_mp4, NoFields) EXCEPT !.mime = m] : m \in Mimes}
    \cup {[GoodUpload(S_a_mp4, NoFields) EXCEPT !.sizeMB = z] :
              z \in {MAX_FILE_SIZE_MB, MAX_FILE_SIZE_MB + 1}}
    \cup {[GoodUpload(S_a_mp4, NoFields) EXCEPT !.field = "other"],
          [GoodUpload(S_a_mp4, NoFields) EXCEPT !.hasFile = FALSE]}

Stream(type, w, h, d) == [codec_type |-> type, width |-> w, height |-> h, duration |-> d]
ProbeOutputs ==
    { [streams |-> <<Stream("video", <<1080>>, <<1920>>, <<30>>), Stream("audio", <<>>, <<>>, <<30>>)>>,
       format |-> [duration |-> <<30>>]],
      [streams |-> <<Stream("video", <<952>>, <<718>>, <<48>>)>>,
       format |-> [duration |-> <<48>>]],
      [streams |-> <<Stream("audio", <<>>, <<>>, <<>>), Stream("video", <<1080>>, <<1920>>, <<>>)>>,
       format |-> [duration |-> <<90>>]],
      [streams |-> <<Stream("audio", <<>>, <<>>, <<12>>)>>,
       format |-> [duration |-> <<12>>]] }

\* fragments the captured stderr of a tool may contain
StderrSet == {{}, {"ffmpeg"}}

-----------------------------------------------------------------------------
(* State *)

NoFiles == [x \in {} |-> ""]
Put(f, name, tag) == [x \in DOMAIN f \cup {name} |-> IF x = name THEN tag ELSE f[x]]

NoResp == [kind |-> "none", status |-> 0, error |-> "", msg |-> {}, rmAtSend |-> 0,
           headers |-> <<>>, complete |-> FALSE]
NoStream == [state |-> "none", path |-> <<>>, content |-> "", sent |-> 0]
NoOutcome == [outPath |-> <<>>, converted |-> FALSE, modeUsed |-> "", finalMeta |-> <<>>]
FfNone ==
    [promise |-> "none", msg |-> {}, settled |-> FALSE, timer |-> "none",
     alive |-> FALSE, sigkill |-> FALSE, exit |-> "none",
     errorPending |-> FALSE, closePending |-> FALSE,
     decidedBy |-> "none", kills |-> 0, timeoutActed |-> FALSE]

\* the requests of the several-request view: none has arrived
NoConc ==
    [reqs |-> [r \in 1..NumReq |-> [pc |-> "idle", dir |-> 0]],
     root |-> [d \in {} |-> {}],
     issued |-> {},
     last |-> [r |-> 0, op |-> "none"]]

\* no function is under examination
NoUnit == [fn |-> "none", in |-> <<>>, out |-> <<>>]

\* one request, before processTmpMiddleware
InitRequest ==
    /\ route = "none"
    /\ impl \in {"guarded", "legacy"}
    /\ pc = "idle"
    /\ upload = <<>>
    /\ file = <<>>
    /\ dirExists = FALSE
    /\ files = NoFiles
    /\ rm = [calls |-> 0, destroyed |-> 0]
    /\ resp = NoResp
    /\ options = <<>>
    /\ meta = <<>>
    /\ validation = <<>>
    /\ outcome = NoOutcome
    /\ ff = FfNone
    /\ stream = NoStream
    /\ spawns = [ffprobe |-> 0, ffmpeg |-> 0]

Init ==
    /\ InitRequest
    /\ conc = NoConc
    /\ unit = NoUnit

-----------------------------------------------------------------------------
(* utils/tmp.ts *)

\* rmDirRecursive(tmpDir), n calls in a row: the first removes the directory
\* with its entries when it exists, a call on an absent directory returns
rmDirRecursive(n) ==
    /\ rm' = [calls |-> rm.calls + n,
              destroyed |-> IF dirExists THEN rm.destroyed + 1 ELSE rm.destroyed]
    /\ dirExists' = FALSE
    /\ files' = NoFiles

\* assertFileSize throws
fileTooLarge(sizeMB) == sizeMB > MAX_FILE_SIZE_MB

(* routes/process.ts: isVideoMime *)
isVideoMime(mime) ==
    IF mime = <<>> THEN FALSE
    ELSE IF mime \in {<<"video", "mp4">>, <<"video", "quicktime">>, <<"video", "x-msvideo">>,
                      <<"video", "webm">>, <<"video", "x-matroska">>} THEN TRUE
    ELSE Len(mime) = 2 /\ mime[1] = "video"

\* the error multer's upload.single('file') hands to its callback, "" for none
multerError(u) ==
    IF ~u.hasFile THEN ""
    ELSE IF u.field # "file" THEN "Unexpected field"
    ELSE IF ~isVideoMime(u.mime) THEN "FILE_NOT_VIDEO"
    ELSE IF u.sizeMB > MAX_FILE_SIZE_MB THEN "LIMIT_FILE_SIZE"
    ELSE ""

ErrorResp(c, msg, rmBefore) ==
    [kind |-> "error", status |-> c.status, error |-> c.error, msg |-> msg,
     rmAtSend |-> rmBefore, headers |-> <<>>, complete |-> TRUE]

-----------------------------------------------------------------------------
(* Middleware *)

(* routes/process.ts: processTmpMiddleware, for either endpoint *)
processTmpMiddleware ==
    /\ pc = "idle"
    /\ \E r \in {"process", "inspect"}, u \in Uploads :
          /\ route' = r
          /\ upload' = u
    /\ dirExists' = TRUE
    /\ pc' = "upload"
    /\ UNCHANGED <<impl, conc, unit, file, files, rm, resp, options, meta, validation,
                   outcome, ff, stream, spawns>>

(* server.ts: the upload.single('file') step and its callback *)
uploadMiddleware ==
    /\ pc = "upload"
    /\ LET err == multerError(upload) IN
       IF err # ""
       THEN /\ rmDirRecursive(1)
            /\ resp' = ErrorResp(classifyUploadError(err), {err}, rm.calls + 1)
            /\ pc' = "done"
            /\ file' = file
       ELSE /\ pc' = "handler"
            /\ IF upload.hasFile
               THEN LET name == storageFilename(upload.originalname) IN
                    /\ file' = <<[name |-> name, size |-> upload.sizeMB]>>
                    /\ files' = Put(files, name, "upload")
               ELSE UNCHANGED <<file, files>>
            /\ UNCHANGED <<rm, dirExists, resp>>
    /\ UNCHANGED <<route, impl, conc, unit, upload, options, meta, validation, outcome, ff, stream,
                   spawns>>

-----------------------------------------------------------------------------
(* utils/ffmpeg.ts: convertToShorts *)

\* resolve() / reject() of the Promise: only the first call has an effect
Settle(f, how, msg, who) ==
    IF f.promise = "pending"
    THEN [f EXCEPT !.promise = how, !.msg = msg, !.decidedBy = who]
    ELSE f

\* proc.kill('SIGKILL'): signals a live process, a no-op on one that has exited
Kill(f) == [f EXCEPT !.sigkill = f.alive \/ @, !.kills = @ + 1]

\* existsSync(outPath)
outputExists == dirExists /\ outputPath \in DOMAIN files

\* spawn(FFMPEG, args) and setTimeout(..., timeoutMs); started = FALSE is a
\* spawn failure, reported by the 'error' event
spawnFfmpeg(started) ==
    [FfNone EXCEPT !.promise = "pending", !.timer = "armed",
                   !.alive = started, !.errorPending = ~started]

\* a setTimeout callback that kills the process and leaves the promise alone
onTimeoutKillOnly(f) ==
    IF f.settled THEN [f EXCEPT !.timer = "fired"]
    ELSE Kill([f EXCEPT !.settled = TRUE, !.timer = "fired", !.timeoutActed = TRUE])

\* the setTimeout callback
onTimeout(f) ==
    IF f.settled THEN [f EXCEPT !.timer = "fired"]
    ELSE Settle(Kill([f EXCEPT !.settled = TRUE, !.timer = "fired", !.timeoutActed = TRUE]),
                "rejected", MsgFfmpegTimeout, "timeout")

\* proc.on('error')
onError(f) ==
    IF f.settled THEN f
    ELSE Settle([f EXCEPT !.settled = TRUE, !.timer = "cleared"],
                "rejected", MsgFfmpegSpawnFailed, "error")

\* a 'close' handler that neither clears the timer nor takes the one-shot flag
onCloseNoGuard(f, stderr, exists) ==
    IF f.exit # "zero" THEN Settle(f, "rejected", MsgFfmpegExit(stderr), "close")
    ELSE IF ~exists THEN Settle(f, "rejected", MsgFfmpegOutputMissing, "close")
    ELSE Settle(f, "resolved", {}, "close")

\* proc.on('close')
onClose(f, stderr, exists) ==
    LET g == [f EXCEPT !.timer = IF @ = "armed" THEN "cleared" ELSE @] IN
    IF g.settled THEN g
    ELSE LET h == [g EXCEPT !.settled = TRUE] IN
         IF h.exit # "zero" THEN Settle(h, "rejected", MsgFfmpegExit(stderr), "close")
         ELSE IF ~exists THEN Settle(h, "rejected", MsgFfmpegOutputMissing, "close")
         ELSE Settle(h, "resolved", {}, "close")

(* utils/validate.ts, second half: the convertToShorts without the flag *)
legacyOnTimeout(f) ==
    Settle(Kill([f EXCEPT !.timer = "fired", !.timeoutActed = TRUE]),
           "rejected", MsgFfmpegTimeout, "timeout")

legacyOnError(f) ==
    Settle([f EXCEPT !.timer = IF @ = "armed" THEN "cleared" ELSE @],
           "rejected", MsgFfmpegSpawnFailed, "error")

legacyOnClose(f, stderr, exists) ==
    LET g == [f EXCEPT !.timer = IF @ = "armed" THEN "cleared" ELSE @] IN
    IF g.exit # "zero" THEN Settle(g, "rejected", MsgFfmpegExit(stderr), "close")
    ELSE IF ~exists THEN Settle(g, "rejected", MsgFfmpegOutputMissing, "close")
    ELSE Settle(g, "resolved", {}, "close")

ffFrame == <<route, impl, conc, unit, pc, upload, file, dirExists, files, rm, resp,
             options, meta, validation, outcome, stream, spawns>>

\* the timer expires while it is armed
TimeoutFires ==
    /\ ff.timer = "armed"
    /\ ff' = IF impl = "guarded" THEN onTimeout(ff) ELSE legacyOnTimeout(ff)
    /\ UNCHANGED ffFrame

\* the child process emits 'error'; 'close' may or may not follow
ProcError ==
    /\ ff.errorPending
    /\ \E closes \in BOOLEAN :
          LET f == [ff EXCEPT !.errorPending = FALSE, !.closePending = closes,
                              !.exit = IF closes THEN "nonzero" ELSE @]
          IN ff' = IF impl = "guarded" THEN onError(f) ELSE legacyOnError(f)
    /\ UNCHANGED ffFrame

\* the child process emits 'close'
ProcClose ==
    /\ ff.closePending
    /\ \E stderr \in StderrSet :
          LET f == [ff EXCEPT !.closePending = FALSE]
          IN ff' = IF impl = "guarded" THEN onClose(f, stderr, outputExists)
                   ELSE legacyOnClose(f, stderr, outputExists)
    /\ UNCHANGED ffFrame

(* The transcoder process and the operating system *)

\* the running transcoder creates or rewrites its output file
ProcWrites ==
    /\ ff.alive
    /\ dirExists
    /\ ~(outputPath \in DOMAIN files /\ files[outputPath] = "partial")
    /\ files' = Put(files, outputPath, "partial")
    /\ UNCHANGED <<route, impl, conc, unit, pc, upload, file, dirExists, rm, resp,
                   options, meta, validation, outcome, ff, stream, spawns>>

\* the transcoder exits on its own: code 0 (with or without a finished
\* output file) or a non-zero code
ProcExits ==
    /\ ff.alive
    /\ ~ff.sigkill
    /\ \E code \in {"zero", "nonzero"}, wrote \in BOOLEAN :
          /\ ff' = [ff EXCEPT !.alive = FALSE, !.exit = code, !.closePending = TRUE]
          /\ files' = IF code = "zero" /\ wrote /\ dirExists
                      THEN Put(files, outputPath, "transcoded")
                      ELSE files
    /\ UNCHANGED <<route, impl, conc, unit, pc, upload, file, dirExists, rm, resp,
                   options, meta, validation, outcome, stream, spawns>>

\* the pending SIGKILL ends the process
ProcKilled ==
    /\ ff.alive
    /\ ff.sigkill
    /\ ff' = [ff EXCEPT !.alive = FALSE, !.exit = "signal", !.closePending = TRUE]
    /\ UNCHANGED ffFrame

-----------------------------------------------------------------------------
(* utils/ffprobe.ts: getVideoMetadata *)

\* what the ffprobe child process does: it fails to start, exits non-zero,
\* or exits 0 with unparseable or parseable output
ProbeRuns ==
    {[kind |-> "spawn_failed", stderr |-> {}, json |-> <<>>],
     [kind |-> "bad_json", stderr |-> {}, json |-> <<>>]}
    \cup {[kind |-> "exit_nonzero", stderr |-> e, json |-> <<>>] : e \in StderrSet}
    \cup {[kind |-> "json", stderr |-> {}, json |-> <<j>>] : j \in ProbeOutputs}

\* the settled promise: [ok, meta] or [ok = FALSE, msg]
getVideoMetadata(run) ==
    CASE run.kind = "spawn_failed" -> [ok |-> FALSE, msg |-> MsgProbeSpawnFailed, meta |-> <<>>]
      [] run.kind = "exit_nonzero" -> [ok |-> FALSE, msg |-> MsgProbeExit(run.stderr), meta |-> <<>>]
      [] run.kind = "bad_json" -> [ok |-> FALSE, msg |-> MsgProbeBadJson, meta |-> <<>>]
      [] OTHER -> LET r == parseProbe(run.json[1]) IN
                  IF r.ok THEN [ok |-> TRUE, msg |-> {}, meta |-> r.meta]
                  ELSE [ok |-> FALSE, msg |-> MsgProbeNoVideo, meta |-> <<>>]

-----------------------------------------------------------------------------
(* routes/process.ts: processShorts *)

\* a catch block that runs the handler once more after a failed probe
processCatchRetry(msg) ==
    IF spawns.ffprobe = 1 /\ spawns.ffmpeg = 0 /\ meta = <<>>
    THEN /\ UNCHANGED <<dirExists, files, rm, resp>>
         /\ pc' = "handler"
    ELSE /\ rmDirRecursive(1)
         /\ resp' = ErrorResp(classifyProcess(msg), msg, rm.calls + 1)
         /\ pc' = "done"

\* the catch block: destroy the workspace, then send the classified error
processCatch(msg) ==
    /\ rmDirRecursive(1)
    /\ resp' = ErrorResp(classifyProcess(msg), msg, rm.calls + 1)
    /\ pc' = "done"

\* up to the first await: the NO_FILE return, assertFileSize, the options,
\* and the start of the probe
processShortsStart ==
    /\ pc = "handler"
    /\ route = "process"
    /\ IF file = <<>>
       THEN /\ resp' = ErrorResp([status |-> 400, error |-> "NO_FILE"], {}, rm.calls)
            /\ pc' = "done"
            /\ UNCHANGED <<dirExists, files, rm, options, spawns>>
       ELSE IF fileTooLarge(file[1].size)
       THEN /\ processCatch(MsgFileSize)
            /\ UNCHANGED <<options, spawns>>
       ELSE /\ options' = <<parseProcessOptions(upload.body)>>
            /\ spawns' = [spawns EXCEPT !.ffprobe = @ + 1]
            /\ pc' = "probing"
            /\ UNCHANGED <<dirExists, files, rm, resp>>
    /\ UNCHANGED <<route, impl, conc, unit, upload, file, meta, validation, outcome, ff, stream>>

\* a decision that ignores forceConvert
shouldConvertIneligibleOnly(o, v) == ~v.shortsEligible

\* a decision with the force flag negated
shouldConvertNegatedForce(o, v) == ~o.forceConvert \/ ~v.shortsEligible

\* the decision of line 115
shouldConvert(o, v) == o.forceConvert \/ ~v.shortsEligible

\* the final metadata after a conversion that kept the probed aspect ratio
convertedMetaKeepAspect(m, o) ==
    [m EXCEPT !.width = o.targetWidth, !.height = o.targetHeight]

\* the final metadata after a conversion (lines 127-132)
convertedMeta(m, o) ==
    [m EXCEPT !.width = o.targetWidth, !.height = o.targetHeight,
              !.aspectRatio = [n |-> o.targetWidth.v, d |-> o.targetHeight.v]]

\* an emission followed by the destruction of the workspace when the
\* handler returns, as a finally block would do
emitThenDestroy(outPath, converted, finalMeta, v) ==
    IF ~(dirExists /\ outPath \in DOMAIN files)
    THEN /\ processCatch({"ENOENT"})
         /\ UNCHANGED <<outcome, stream>>
    ELSE /\ outcome' = [outPath |-> outPath, converted |-> converted,
                        modeUsed |-> options[1].mode, finalMeta |-> <<finalMeta>>]
         /\ stream' = [state |-> "open", path |-> outPath, content |-> files[outPath],
                       sent |-> 0]
         /\ resp' = [kind |-> "stream", status |-> 200, error |-> "", msg |-> {},
                     rmAtSend |-> rm.calls,
                     headers |-> <<[width |-> finalMeta.width,
                                    height |-> finalMeta.height,
                                    durationSec |-> finalMeta.durationSec,
                                    aspectRatio |-> finalMeta.aspectRatio,
                                    eligible |-> v.shortsEligible,
                                    converted |-> converted,
                                    mode |-> options[1].mode,
                                    filename |-> dispositionFilename(upload.originalname,
                                                                     converted)]>>,
                     complete |-> FALSE]
         /\ pc' = "streaming"
         /\ rmDirRecursive(1)

\* lines 143-179: open the chosen file, set the headers, pipe it
emit(outPath, converted, finalMeta, v) ==
    IF ~(dirExists /\ outPath \in DOMAIN files)
    THEN \* statSync throws ENOENT
         /\ processCatch({"ENOENT"})
         /\ UNCHANGED <<outcome, stream>>
    ELSE /\ outcome' = [outPath |-> outPath, converted |-> converted,
                        modeUsed |-> options[1].mode, finalMeta |-> <<finalMeta>>]
         /\ stream' = [state |-> "open", path |-> outPath, content |-> files[outPath],
                       sent |-> 0]
         /\ resp' = [kind |-> "stream", status |-> 200, error |-> "", msg |-> {},
                     rmAtSend |-> rm.calls,
                     headers |-> <<[width |-> finalMeta.width,
                                    height |-> finalMeta.height,
                                    durationSec |-> finalMeta.durationSec,
                                    aspectRatio |-> finalMeta.aspectRatio,
                                    eligible |-> v.shortsEligible,
                                    converted |-> converted,
                                    mode |-> options[1].mode,
                                    filename |-> dispositionFilename(upload.originalname,
                                                                     converted)]>>,
                     complete |-> FALSE]
         /\ pc' = "streaming"
         /\ UNCHANGED <<dirExists, files, rm>>

\* getVideoMetadata settles: validate, decide, and either start the
\* transcoder or emit the staged input
processShortsAfterProbe ==
    /\ pc = "probing"
    /\ route = "process"
    /\ \E run \in ProbeRuns :
          LET got == getVideoMetadata(run) IN
          IF ~got.ok
          THEN /\ processCatch(got.msg)
               /\ UNCHANGED <<meta, validation, outcome, ff, stream, spawns>>
          ELSE LET m == got.meta[1]
                   v == validateShorts(m, options[1])
               IN /\ meta' = <<m>>
                  /\ validation' = <<v>>
                  /\ IF shouldConvert(options[1], v)
                     THEN /\ \E started \in BOOLEAN : ff' = spawnFfmpeg(started)
                          /\ spawns' = [spawns EXCEPT !.ffmpeg = @ + 1]
                          /\ pc' = "converting"
                          /\ UNCHANGED <<dirExists, files, rm, resp, outcome, stream>>
                     ELSE /\ emit(file[1].name, FALSE, m, v)
                          /\ UNCHANGED <<ff, spawns>>
    /\ UNCHANGED <<route, impl, conc, unit, upload, file, options>>

\* a continuation that does not wait for the promise
awaitSkipped(f) == TRUE

\* await convertToShorts(...) of line 125: the handler resumes once the
\* promise is settled
await(f) == f.promise \in {"resolved", "rejected"}

\* convertToShorts settles
processShortsAfterConvert ==
    /\ pc = "converting"
    /\ route = "process"
    /\ await(ff)
    /\ IF ff.promise = "rejected"
       THEN /\ processCatch(ff.msg)
            /\ UNCHANGED <<outcome, stream>>
       ELSE emit(outputPath, TRUE, convertedMeta(meta[1], options[1]), validation[1])
    /\ UNCHANGED <<route, impl, conc, unit, upload, file, options, meta, validation, ff, spawns>>

\* the cleanup closure of line 153
cleanup == rmDirRecursive(1)

streamFrame == <<route, impl, conc, unit, upload, file, options, meta, validation, outcome, ff, spawns>>

\* a chunk of the file goes out
StreamData ==
    /\ pc = "streaming"
    /\ stream.state = "open"
    /\ stream.sent < StreamChunks
    /\ stream' = [stream EXCEPT !.sent = @ + 1]
    /\ UNCHANGED <<pc, dirExists, files, rm, resp>>
    /\ UNCHANGED streamFrame

\* 'end': the cleanup listener runs and pipe() ends the response
StreamEnd ==
    /\ pc = "streaming"
    /\ stream.state = "open"
    /\ stream.sent = StreamChunks
    /\ stream' = [stream EXCEPT !.state = "ended"]
    /\ cleanup
    /\ resp' = [resp EXCEPT !.complete = TRUE]
    /\ pc' = "done"
    /\ UNCHANGED streamFrame

\* 'error' while reading: the listener logs and cleans up; nothing ends the
\* response
StreamError ==
    /\ pc = "streaming"
    /\ stream.state = "open"
    /\ stream' = [stream EXCEPT !.state = "errored"]
    /\ cleanup
    /\ pc' = "done"
    /\ UNCHANGED resp
    /\ UNCHANGED streamFrame

\* the client closes the connection before 'end': pipe() unpipes the file
\* stream, which then emits neither 'end' nor 'error'
ClientAbort ==
    /\ pc = "streaming"
    /\ stream.state = "open"
    /\ stream' = [stream EXCEPT !.state = "unpiped"]
    /\ pc' = "done"
    /\ UNCHANGED <<dirExists, files, rm, resp>>
    /\ UNCHANGED streamFrame

-----------------------------------------------------------------------------
(* routes/process.ts: inspect *)

\* the catch block followed by the finally block
inspectCatch(msg) ==
    /\ rmDirRecursive(2)
    /\ resp' = ErrorResp(classifyInspect(msg), msg, rm.calls + 1)
    /\ pc' = "done"

inspectStart ==
    /\ pc = "handler"
    /\ route = "inspect"
    /\ IF file = <<>>
       THEN \* rmDirRecursive, the NO_FILE response, then the finally block
            /\ rmDirRecursive(2)
            /\ resp' = ErrorResp([status |-> 400, error |-> "NO_FILE"], {}, rm.calls + 1)
            /\ pc' = "done"
            /\ UNCHANGED <<options, spawns>>
       ELSE IF fileTooLarge(file[1].size)
       THEN /\ inspectCatch(MsgFileSize)
            /\ UNCHANGED <<options, spawns>>
       ELSE /\ options' = <<parseProcessOptions(upload.body)>>
            /\ spawns' = [spawns EXCEPT !.ffprobe = @ + 1]
            /\ pc' = "probing"
            /\ UNCHANGED <<dirExists, files, rm, resp>>
    /\ UNCHANGED <<route, impl, conc, unit, upload, file, meta, validation, outcome, ff, stream>>

inspectAfterProbe ==
    /\ pc = "probing"
    /\ route = "inspect"
    /\ \E run \in ProbeRuns :
          LET got == getVideoMetadata(run) IN
          IF ~got.ok
          THEN /\ inspectCatch(got.msg)
               /\ UNCHANGED <<meta, validation>>
          ELSE LET m == got.meta[1]
                   v == validateShorts(m, options[1])
               IN /\ meta' = <<m>>
                  /\ validation' = <<v>>
                  /\ resp' = [kind |-> "json", status |-> 200, error |-> "", msg |-> {},
                              rmAtSend |-> rm.calls,
                              headers |-> <<[width |-> m.width, height |-> m.height,
                                             durationSec |-> m.durationSec,
                                             aspectRatio |-> m.aspectRatio,
                                             shortsEligible |-> v.shortsEligible,
                                             reason |-> v.reasons]>>,
                              complete |-> TRUE]
                  /\ rmDirRecursive(1)
                  /\ pc' = "done"
    /\ UNCHANGED <<route, impl, conc, unit, upload, file, options, outcome, ff, stream, spawns>>

-----------------------------------------------------------------------------

Next ==
    \/ processTmpMiddleware
    \/ uploadMiddleware
    \/ processShortsStart
    \/ processShortsAfterProbe
    \/ processShortsAfterConvert
    \/ TimeoutFires
    \/ ProcError
    \/ ProcClose
    \/ ProcWrites
    \/ ProcExits
    \/ ProcKilled
    \/ StreamData
    \/ StreamEnd
    \/ StreamError
    \/ ClientAbort
    \/ inspectStart
    \/ inspectAfterProbe

Spec == Init /\ [][Next]_vars

-----------------------------------------------------------------------------
-----------------------------------------------------------------------------
(* Single functions, each applied once to an input drawn from a finite set *)

\* VideoMetadata as getVideoMetadata builds it from width, height, duration
Metadata(w, h, d) ==
    [width |-> Num(w), height |-> Num(h), durationSec |-> Num(d),
     aspectRatio |-> [n |-> w, d |-> h], hasAudio |-> TRUE]

\* portrait, landscape and square frames; 1285x2000 lies on the upper edge
\* of the 0.08 band around 9/16 and 1286x2000 just outside it
ValidateDims ==
    {<<1080, 1920>>, <<1920, 1080>>, <<1080, 1080>>, <<952, 718>>,
     <<1000, 2000>>, <<1285, 2000>>, <<1286, 2000>>, <<600, 2000>>}

\* durations around the limits 30 and 60; tolerances NaN, 0.001, 0.08, 0.5
ValidateInputs ==
    {[meta |-> Metadata(p[1], p[2], d),
      options |-> [DEFAULT_PROCESS_OPTIONS EXCEPT !.tolerance = t, !.maxDurationSec = x]] :
        p \in ValidateDims, d \in {30, 60, 61},
        t \in {NaN, Num(MIN_TOLERANCE), Num(80), Num(MAX_TOLERANCE)},
        x \in {Num(30), Num(60)}}

unitFrame == <<route, impl, pc, upload, file, dirExists, files, rm, resp,
               options, meta, validation, outcome, ff, stream, spawns, conc>>

callValidateShorts ==
    /\ unit.fn = "validateShorts"
    /\ unit.out = <<>>
    /\ unit' = [unit EXCEPT !.out = <<validateShorts(unit.in.meta, unit.in.options)>>]
    /\ UNCHANGED unitFrame

(* utils/tmp.ts: rmDirRecursive over a directory tree.  An entry is a file
   or a directory with entries of its own; failing holds the names whose
   unlinkSync or rmdirSync throws.  The result is [threw, left]: whether
   the loop was left by an exception, and the entries still on disk. *)
RECURSIVE rmEntries(_, _)
rmEntries(entries, failing) ==
    IF entries = <<>> THEN [threw |-> FALSE, left |-> <<>>]
    ELSE LET e == Head(entries) IN
         IF e.kind = "dir"
         THEN LET sub == rmEntries(e.entries, failing) IN
              IF sub.threw
              THEN [threw |-> TRUE,
                    left |-> <<[e EXCEPT !.entries = sub.left]>> \o Tail(entries)]
              ELSE IF e.name \in failing
              THEN [threw |-> TRUE,
                    left |-> <<[e EXCEPT !.entries = <<>>]>> \o Tail(entries)]
              ELSE rmEntries(Tail(entries), failing)
         ELSE IF e.name \in failing
              THEN [threw |-> TRUE, left |-> entries]
              ELSE rmEntries(Tail(entries), failing)

\* one call of rmDirRecursive(dir): [threw, dir afterwards]
rmDirRecursiveCall(dir, failing) ==
    IF ~dir.exists THEN [threw |-> FALSE, dir |-> dir]
    ELSE LET r == rmEntries(dir.entries, failing) IN
         IF r.threw THEN [threw |-> TRUE, dir |-> [exists |-> TRUE, entries |-> r.left]]
         ELSE [threw |-> FALSE, dir |-> [exists |-> FALSE, entries |-> <<>>]]

FileEntry(n) == [name |-> n, kind |-> "file", entries |-> <<>>]
RmInputs ==
    {[dir |-> d, failing |-> f] :
        d \in {[exists |-> FALSE, entries |-> <<>>],
               [exists |-> TRUE, entries |-> <<>>],
               [exists |-> TRUE, entries |-> <<FileEntry("a.mp4")>>],
               [exists |-> TRUE, entries |-> <<FileEntry("a.mp4"), FileEntry("output.mp4")>>],
               [exists |-> TRUE,
                entries |-> <<[name |-> "sub", kind |-> "dir",
                               entries |-> <<FileEntry("x")>>],
                              FileEntry("output.mp4")>>]},
        f \in SUBSET {"a.mp4", "output.mp4", "x"}}

\* rmDirRecursive(dir) twice in a row, as catch and finally do
callRmDirRecursive ==
    /\ unit.fn = "rmDirRecursive"
    /\ unit.out = <<>>
    /\ LET first == rmDirRecursiveCall(unit.in.dir, unit.in.failing)
           second == rmDirRecursiveCall(first.dir, unit.in.failing)
       IN unit' = [unit EXCEPT !.out = <<[first |-> first, second |-> second]>>]
    /\ UNCHANGED unitFrame

(* utils/ffmpeg.ts: getFfmpegTimeoutSec *)

\* parseInt(s, 10): leading blanks, an optional sign, then the longest run
\* of decimal digits; NaN when there is no digit
DigitSeq == <<"0", "1", "2", "3", "4", "5", "6", "7", "8", "9">>
RECURSIVE DigitsValue(_, _)
DigitsValue(s, acc) ==
    IF s = <<>> \/ Head(s) \notin Digit THEN acc
    ELSE DigitsValue(Tail(s), 10 * acc + (CHOOSE i \in 1..10 : DigitSeq[i] = Head(s)) - 1)
RECURSIVE parseInt10(_)
parseInt10(s) ==
    IF s = <<>> THEN NaN
    ELSE IF Head(s) = " " THEN parseInt10(Tail(s))
    ELSE LET signed == Head(s) \in {"-", "+"}
             body == IF signed THEN Tail(s) ELSE s
         IN IF body = <<>> \/ Head(body) \notin Digit THEN NaN
            ELSE Num((IF Head(s) = "-" THEN 0 - 1 ELSE 1) * DigitsValue(body, 0))

\* env.set = FALSE is process.env.FFMPEG_TIMEOUT_SEC === undefined
getFfmpegTimeoutSec(env) ==
    IF ~env.set \/ env.s = <<>> THEN FFMPEG_TIMEOUT_SEC_DEFAULT
    ELSE LET n == parseInt10(env.s) IN
         IF n.nan \/ n.v < MIN_TIMEOUT_SEC THEN FFMPEG_TIMEOUT_SEC_DEFAULT
         ELSE IF n.v <= MAX_TIMEOUT_SEC THEN n.v ELSE MAX_TIMEOUT_SEC

TimeoutInputs ==
    {[set |-> FALSE, s |-> <<>>]}
    \cup {[set |-> TRUE, s |-> t] :
            t \in {<<>>, <<"a", "b", "c">>, <<"0">>, <<"3", "0">>, <<"5", "9">>,
                   <<"6", "0">>, <<"9", "0">>, <<"9", "0", "s">>, <<" ", "9", "0", "0">>,
                   <<"1", "2", ".", "5">>, <<"-", "5">>, <<"6", "0", "0">>,
                   <<"3", "6", "0", "0">>, <<"3", "6", "0", "1">>, <<"5", "0", "0", "0">>}}

callGetFfmpegTimeoutSec ==
    /\ unit.fn = "getFfmpegTimeoutSec"
    /\ unit.out = <<>>
    /\ unit' = [unit EXCEPT !.out = <<getFfmpegTimeoutSec(unit.in)>>]
    /\ UNCHANGED unitFrame

(* utils/tmp.ts sanitizeFilename and the Content-Disposition name of
   routes/process.ts, for one upload name *)

\* n times the character c
Repeat(c, n) == [i \in 1..n |-> c]

\* empty, plain, blank in the base, path separators, non-ASCII in the base,
\* a blank or a non-ASCII character in the extension, a base longer than
\* the limit of sanitizeFilename, and a name that is only an extension
FilenameInputs ==
    Names \cup
    {<<".", ".", "/", "x", "/", "y">>,
     <<"c", "l", "i", "p", "/">>,
     <<"é", ".", "m", "p", "4">>,
     <<"a", ".", "m", " ", "v">>,
     <<"a", ".", "m", "p", "é">>,
     <<".", "m", "p", "4">>,
     <<"/">>,
     Repeat("a", SANITIZE_MAX_LEN + 1),
     Repeat("a", SANITIZE_MAX_LEN + 1) \o S_mp4}

callDispositionFilename ==
    /\ unit.fn = "dispositionFilename"
    /\ unit.out = <<>>
    /\ unit' = [unit EXCEPT !.out =
                   <<[sanitized |-> sanitizeFilename(unit.in),
                      original |-> dispositionFilename(unit.in, FALSE),
                      shorts |-> dispositionFilename(unit.in, TRUE)]>>]
    /\ UNCHANGED unitFrame

(* utils/ffprobe.ts: getVideoMetadata on the output of a prober that
   exited 0 *)

\* streams the prober may list: video with both dimensions and a duration
\* that is absent, positive or zero; a second video size; video without
\* dimensions; video with a width only; audio; a subtitle stream
StreamKinds ==
    {Stream("video", <<1080>>, <<1920>>, d) : d \in {<<>>, <<30>>, <<0>>}}
    \cup {Stream("video", <<640>>, <<360>>, <<>>),
          Stream("video", <<>>, <<>>, <<12>>),
          Stream("video", <<640>>, <<>>, <<>>),
          Stream("audio", <<>>, <<>>, <<30>>),
          Stream("subtitle", <<>>, <<>>, <<>>)}

ProbeInputs ==
    {[kind |-> "json", stderr |-> {},
      json |-> <<[streams |-> ss, format |-> [duration |-> fd]]>>] :
        ss \in UNION {[1..k -> StreamKinds] : k \in 0..MaxStreams},
        fd \in {<<>>, <<90>>}}

callGetVideoMetadata ==
    /\ unit.fn = "getVideoMetadata"
    /\ unit.out = <<>>
    /\ unit' = [unit EXCEPT !.out = <<getVideoMetadata(unit.in)>>]
    /\ UNCHANGED unitFrame

(* routes/process.ts: parseProcessOptions on one request body *)

\* a number field: absent, zero, negative, above every limit, not a
\* number, or the value ok
FieldValues(ok) ==
    {Absent, NumStr(0), NumStr(0 - 1), NumStr(5000), Text("abc"), NumStr(ok)}

BodyInputs ==
    {[mode |-> md, targetWidth |-> tw, targetHeight |-> th,
      maxDurationSec |-> mx, tolerance |-> tl, forceConvert |-> fc] :
        md \in {Absent, Text("pad"), Text("zoom")},
        tw \in FieldValues(720),
        th \in {Absent, NumStr(0 - 1)},
        mx \in FieldValues(30),
        tl \in FieldValues(80),
        fc \in {Absent, Text("true"), Text("yes")}}

callParseProcessOptions ==
    /\ unit.fn = "parseProcessOptions"
    /\ unit.out = <<>>
    /\ unit' = [unit EXCEPT !.out = <<parseProcessOptions(unit.in)>>]
    /\ UNCHANGED unitFrame

(* The part of the captured stderr that the rejection of a tool which
   exited non-zero puts into its message, as a number of characters *)

\* utils/ffprobe.ts: `... stderr: ${stderr}`
probeExitStderrPart(n) == n

\* utils/ffmpeg.ts, both copies: `... stderr: ${stderr.slice(-2000)}`
ffmpegExitStderrPart(n) == IF n <= STDERR_TAIL THEN n ELSE STDERR_TAIL

\* nothing, a line, around the tail length, a pipe buffer, a megabyte
StderrInputs ==
    {[tool |-> t, stderrLen |-> n] :
        t \in {"ffprobe", "ffmpeg"},
        n \in {0, 80, STDERR_TAIL - 1, STDERR_TAIL, STDERR_TAIL + 1, 65536, 1048576}}

\* the tool exits non-zero; the catch block sends err.message as it is
callExitMessage ==
    /\ unit.fn = "exitMessage"
    /\ unit.out = <<>>
    /\ unit' = [unit EXCEPT !.out =
                   <<IF unit.in.tool = "ffprobe"
                     THEN probeExitStderrPart(unit.in.stderrLen)
                     ELSE ffmpegExitStderrPart(unit.in.stderrLen)>>]
    /\ UNCHANGED unitFrame

Call(f, inputs) == {[fn |-> f, in |-> i, out |-> <<>>] : i \in inputs}

UnitInputs ==
    Call("validateShorts", ValidateInputs)
    \cup Call("rmDirRecursive", RmInputs)
    \cup Call("getFfmpegTimeoutSec", TimeoutInputs)
    \cup Call("dispositionFilename", FilenameInputs)
    \cup Call("getVideoMetadata", ProbeInputs)
    \cup Call("parseProcessOptions", BodyInputs)
    \cup Call("exitMessage", StderrInputs)

InitUnit ==
    /\ InitRequest
    /\ conc = NoConc
    /\ unit \in UnitInputs

NextUnit ==
    \/ callValidateShorts
    \/ callRmDirRecursive
    \/ callGetFfmpegTimeoutSec
    \/ callDispositionFilename
    \/ callGetVideoMetadata
    \/ callParseProcessOptions
    \/ callExitMessage

SpecUnit == InitUnit /\ [][NextUnit]_vars

-----------------------------------------------------------------------------
(* Several requests over one temp root: utils/tmp.ts and the middleware *)

\* the values uuidv4() can return
Uuids == 1..NumReq

\* the subdirectory names createUniqueTmpDir can pick when it always picks
\* the same one
createSharedTmpDir(issued) == {1}

\* the subdirectory names createUniqueTmpDir can pick: path.join(base,
\* uuidv4()), where uuidv4() does not return a value a second time
createUniqueTmpDir(issued) == Uuids \ issued

\* fs.mkdirSync(sub, {recursive: true}): an existing directory is kept as
\* it is, without an error
mkdirRecursive(root, d) ==
    IF d \in DOMAIN root THEN root
    ELSE [x \in DOMAIN root \cup {d} |-> IF x = d THEN NoFiles ELSE root[x]]

\* a file written at path.join(d, name); fails without effect when d is gone
writeFile(root, d, name, tag) ==
    IF d \in DOMAIN root THEN [root EXCEPT ![d] = Put(@, name, tag)] ELSE root

\* rmDirRecursive(d) seen from the temp root: d goes with its entries
rmDirOf(root, d) == [x \in DOMAIN root \ {d} |-> root[x]]

Live(q) == q.pc \in {"staging", "handling", "converted"}

concFrame == <<route, impl, pc, upload, file, dirExists, files, rm, resp,
               options, meta, validation, outcome, ff, stream, spawns, unit>>

(* routes/process.ts: processTmpMiddleware of request r *)
concTmpMiddleware(r) ==
    /\ conc.reqs[r].pc = "idle"
    /\ \E d \in createUniqueTmpDir(conc.issued) :
          conc' = [reqs |-> [conc.reqs EXCEPT ![r] = [pc |-> "staging", dir |-> d]],
                   root |-> mkdirRecursive(conc.root, d),
                   issued |-> conc.issued \cup {d},
                   last |-> [r |-> r, op |-> "mkdir"]]
    /\ UNCHANGED concFrame

(* multer diskStorage: request r's upload is written into its directory *)
concUpload(r) ==
    /\ conc.reqs[r].pc = "staging"
    /\ \E name \in {S_a_mp4, S_output_mp4} :
          conc' = [conc EXCEPT !.reqs[r].pc = "handling",
                               !.root = writeFile(@, conc.reqs[r].dir,
                                                  storageFilename(name), r),
                               !.last = [r |-> r, op |-> "upload"]]
    /\ UNCHANGED concFrame

(* convertToShorts of request r writes outputPath(tmpDir) *)
concTranscode(r) ==
    /\ conc.reqs[r].pc = "handling"
    /\ conc' = [conc EXCEPT !.reqs[r].pc = "converted",
                            !.root = writeFile(@, conc.reqs[r].dir, outputPath, r),
                            !.last = [r |-> r, op |-> "transcode"]]
    /\ UNCHANGED concFrame

(* rmDirRecursive(tmpDir) of request r: its catch, finally or cleanup *)
concCleanup(r) ==
    /\ Live(conc.reqs[r])
    /\ conc' = [conc EXCEPT !.reqs[r].pc = "done",
                            !.root = rmDirOf(@, conc.reqs[r].dir),
                            !.last = [r |-> r, op |-> "cleanup"]]
    /\ UNCHANGED concFrame

(* request r ends on a path that does not call rmDirRecursive *)
concEndWithoutCleanup(r) ==
    /\ Live(conc.reqs[r])
    /\ conc' = [conc EXCEPT !.reqs[r].pc = "done",
                            !.last = [r |-> r, op |-> "end"]]
    /\ UNCHANGED concFrame

NextConc ==
    \E r \in 1..NumReq :
        \/ concTmpMiddleware(r)
        \/ concUpload(r)
        \/ concTranscode(r)
        \/ concCleanup(r)
        \/ concEndWithoutCleanup(r)

SpecConc == Init /\ [][NextConc]_vars

(* The transcode step of a Process request, from the moment
   processShortsAfterProbe has started the transcoder, under the scheduling
   Node.js and the operating system provide: an armed timer fires, a
   pending 'error' or 'close' event is delivered, a SIGKILL ends the
   process, and the continuation of a settled await runs.  Nothing makes
   the transcoder exit or write on its own. *)
InitLive ==
    \E b \in Bodies, j \in ProbeOutputs, started \in BOOLEAN :
        LET u == GoodUpload(S_a_mp4, b)
            got == parseProbe(j)
            o == parseProcessOptions(b)
            name == storageFilename(u.originalname)
        IN /\ got.ok
           /\ shouldConvert(o, validateShorts(got.meta[1], o))
           /\ route = "process"
           /\ impl \in {"guarded", "legacy"}
           /\ pc = "converting"
           /\ upload = u
           /\ file = <<[name |-> name, size |-> u.sizeMB]>>
           /\ dirExists = TRUE
           /\ files = Put(NoFiles, name, "upload")
           /\ rm = [calls |-> 0, destroyed |-> 0]
           /\ resp = NoResp
           /\ options = <<o>>
           /\ meta = got.meta
           /\ validation = <<validateShorts(got.meta[1], o)>>
           /\ outcome = NoOutcome
           /\ ff = spawnFfmpeg(started)
           /\ stream = NoStream
           /\ spawns = [ffprobe |-> 1, ffmpeg |-> 1]
           /\ conc = NoConc
           /\ unit = NoUnit

NextLive ==
    \/ TimeoutFires
    \/ ProcError
    \/ ProcClose
    \/ ProcWrites
    \/ ProcExits
    \/ ProcKilled
    \/ processShortsAfterConvert
    \/ StreamData
    \/ StreamEnd
    \/ StreamError
    \/ ClientAbort

SpecLive ==
    /\ InitLive
    /\ [][NextLive]_vars
    /\ WF_vars(TimeoutFires)
    /\ WF_vars(ProcError)
    /\ WF_vars(ProcClose)
    /\ WF_vars(ProcKilled)
    /\ WF_vars(processShortsAfterConvert)

(* Terminal outcomes of a Process request *)

Delivered == stream.state = "ended"
TransportFailure == stream.state \in {"errored", "unpiped"}
ProbeFailure == resp.kind = "error" /\ spawns.ffprobe = 1 /\ meta = <<>>
ConversionTimeout == ff.decidedBy = "timeout"
ConversionFailure == ff.promise = "rejected" /\ ff.decidedBy \in {"error", "close"}
ProcessDone == route = "process" /\ pc = "done"

RatEq(a, b) == a.n * b.d = b.n * a.d

-----------------------------------------------------------------------------
(* Claims *)

\* C1: for a Process request, once it has reached a terminal outcome
\* (delivered stream, probe failure, conversion failure, conversion timeout,
\* transport failure while streaming, client disconnect included), the
\* workspace directory is absent.
C1_WorkspaceAbsentAfterTerminalOutcome ==
    (ProcessDone /\ (Delivered \/ TransportFailure \/ ProbeFailure
                       \/ ConversionTimeout \/ ConversionFailure))
        => ~dirExists

\* C2: for a request of either endpoint the workspace is destroyed exactly
\* once: never a second time, and not zero times when the request is over.
C2_DestroyedExactlyOnce ==
    /\ rm.destroyed <= 1
    /\ pc = "done" => rm.destroyed = 1

\* C3: whenever an error response has been sent, the destruction of the
\* workspace had been attempted before it was sent.
C3_DestroyAttemptedBeforeErrorResponse ==
    resp.kind = "error" => resp.rmAtSend >= 1

\* C4: in a convertToShorts call exactly one of the timeout callback, the
\* 'error' handler and the 'close' handler determines the outcome, and the
\* outcome never changes afterwards; after the timeout has acted the outcome
\* is the timeout rejection whatever 'close' reports later; after 'close' has
\* decided, the timeout neither kills nor rejects.
C4_OneTerminationPath ==
    /\ [][ff.decidedBy # "none" =>
            /\ ff'.decidedBy = ff.decidedBy
            /\ ff'.promise = ff.promise
            /\ ff'.msg = ff.msg]_vars
    /\ [](ff.promise \in {"resolved", "rejected"} <=> ff.decidedBy # "none")
    /\ [](ff.timeoutActed =>
            /\ ff.decidedBy = "timeout"
            /\ ff.promise = "rejected"
            /\ ff.msg = MsgFfmpegTimeout)
    /\ [](ff.decidedBy = "close" => ~ff.timeoutActed /\ ff.kills = 0)
    /\ [](ff.promise = "resolved" => ff.decidedBy = "close" /\ ff.exit = "zero")

\* C4 witness: the timeout fired, and afterwards 'close' reported exit code 0
C4_Witness_CloseZeroAfterTimeout ==
    /\ ff.decidedBy = "timeout"
    /\ ff.exit = "zero"
    /\ ~ff.closePending
    /\ ff.promise = "rejected"

C6_NoLiveTranscoderAfterTimeoutReturn ==
    (ConversionTimeout /\ (pc # "converting" \/ rm.calls > 0)) => ~ff.alive

\* C7: a Process request whose transcoder exited with a non-zero code,
\* without a timeout, ends with the classification CONVERSION_FAILED.
C7_NonZeroExitReportsConversionFailed ==
    (ProcessDone /\ ff.decidedBy = "close" /\ ff.exit = "nonzero")
        => resp.error = "CONVERSION_FAILED"

\* C8: in a Process request that has reached the decision, the transcoder
\* has been invoked if and only if forceConvert is true or the input is not
\* eligible.
C8_ConvertIffForcedOrIneligible ==
    (route = "process" /\ validation # <<>>) =>
        /\ (spawns.ffmpeg >= 1) <=>
              (options[1].forceConvert \/ ~validation[1].shortsEligible)
        /\ (ff.promise # "none") <=> (spawns.ffmpeg >= 1)

C8_Witness_ForcedOnEligibleInput ==
    /\ route = "process"
    /\ validation # <<>>
    /\ options[1].forceConvert
    /\ validation[1].shortsEligible
    /\ spawns.ffmpeg = 1

\* C9: in a Process request with forceConvert false and an eligible input no
\* transcoder is started, the streamed file is the staged input holding the
\* uploaded bytes, the final metadata is the probed metadata and the
\* converted flag is false.
C9_EligibleUnforcedPassesInputThrough ==
    (route = "process" /\ validation # <<>>
        /\ ~options[1].forceConvert /\ validation[1].shortsEligible) =>
        /\ spawns.ffmpeg = 0
        /\ ff.promise = "none"
        /\ ~outcome.converted
        /\ outcome.outPath = file[1].name
        /\ outcome.finalMeta = meta
        /\ stream.path = file[1].name
        /\ stream.content = "upload"
        /\ resp.kind = "stream"
        /\ resp.headers[1].converted = FALSE
        /\ resp.headers[1].width = meta[1].width
        /\ resp.headers[1].height = meta[1].height
        /\ resp.headers[1].durationSec = meta[1].durationSec
        /\ resp.headers[1].aspectRatio = meta[1].aspectRatio

C9_Witness_OriginalDelivered ==
    /\ route = "process"
    /\ validation # <<>>
    /\ ~options[1].forceConvert
    /\ validation[1].shortsEligible
    /\ Delivered
    /\ stream.content = "upload"

\* C10: after a successful conversion the final and the reported width and
\* height are the target width and height of the options in force, the
\* final aspect ratio is targetWidth / targetHeight, duration and audio flag
\* are the probed ones, and the reported eligibility is the one evaluated on
\* the probed metadata of the input.
C10_ConvertedMetadataIsTarget ==
    outcome.converted =>
        LET fm == outcome.finalMeta[1]
            o == options[1]
            m == meta[1]
            h == resp.headers[1]
        IN /\ fm.width = o.targetWidth
           /\ fm.height = o.targetHeight
           /\ RatEq(fm.aspectRatio, [n |-> o.targetWidth.v, d |-> o.targetHeight.v])
           /\ fm.durationSec = m.durationSec
           /\ fm.hasAudio = m.hasAudio
           /\ h.width = o.targetWidth
           /\ h.height = o.targetHeight
           /\ RatEq(h.aspectRatio, [n |-> o.targetWidth.v, d |-> o.targetHeight.v])
           /\ h.durationSec = m.durationSec
           /\ h.converted
           /\ h.eligible = validateShorts(m, o).shortsEligible

C10_Witness_ConvertedLandscapeInput ==
    /\ outcome.converted
    /\ Delivered
    /\ meta[1].width.v > meta[1].height.v
    /\ ~resp.headers[1].eligible

\* C11: a finished Process request whose client kept the connection open has
\* either sent an error response and opened no stream, or sent a success
\* response whose whole body (the StreamChunks chunks announced by
\* Content-Length) went out and was ended; never a success response that is
\* cut short, also when reading the file fails after the headers were set.
C11_CompleteOutputOrError ==
    (ProcessDone /\ stream.state # "unpiped") =>
        \/ /\ resp.kind = "error"
           /\ stream.state = "none"
        \/ /\ resp.kind = "stream"
           /\ resp.status = 200
           /\ resp.complete
           /\ stream.sent = StreamChunks

\* C12: in a Process request without option fields the options in force are
\* the documented defaults (blur, 1080, 1920, 60, 0.08, false), and a probed
\* input of 1080x1920 lasting 30 s is evaluated eligible, starts no
\* transcoder and is answered with the staged original file.
C12_NoFieldsGivesDefaults ==
    (route = "process" /\ upload # <<>> /\ options # <<>>) =>
        (upload.body = NoFields =>
            /\ options[1] = DEFAULT_PROCESS_OPTIONS
            /\ (/\ meta # <<>>
                /\ meta[1].width = Num(1080)
                /\ meta[1].height = Num(1920)
                /\ meta[1].durationSec = Num(30)) =>
                   /\ validation[1].shortsEligible
                   /\ spawns.ffmpeg = 0
                   /\ ~outcome.converted
                   /\ stream.path = file[1].name)

\* C13: validateShorts returns isVertical = (height > width), so equal
\* dimensions are not vertical, aspectOk = (|aspectRatio - 9/16| <=
\* tolerance), durationOk = (durationSec <= maxDurationSec), and
\* shortsEligible = the conjunction of exactly these three flags.
C13_FlagsOfValidateShorts ==
    (unit.fn = "validateShorts" /\ unit.out # <<>>) =>
        LET m == unit.in.meta
            o == unit.in.options
            v == unit.out[1]
            ar == m.aspectRatio
        IN /\ v.isVertical = (m.height.v > m.width.v)
           /\ (m.height.v = m.width.v) => ~v.isVertical
           /\ v.aspectOk = (/\ ~o.tolerance.nan
                            /\ 1000 * Abs(16 * ar.n - 9 * ar.d) <= o.tolerance.v * 16 * ar.d)
           /\ v.durationOk = (m.durationSec.v <= o.maxDurationSec.v)
           /\ v.shortsEligible = (v.isVertical /\ v.aspectOk /\ v.durationOk)

\* C13 witness: a square frame of admissible duration was evaluated
C13_Witness_SquareFrameNotVertical ==
    /\ unit.fn = "validateShorts"
    /\ unit.out # <<>>
    /\ unit.in.meta.width = unit.in.meta.height
    /\ unit.out[1].durationOk
    /\ ~unit.out[1].isVertical
    /\ ~unit.out[1].shortsEligible

\* C14: the reasons returned by validateShorts hold the label of a criterion
\* exactly when that criterion failed, each at most once, in the order
\* NOT_VERTICAL, ASPECT_RATIO_MISMATCH, DURATION_EXCEEDED; the list is empty
\* exactly when the input is eligible and has one label when exactly one
\* criterion failed.
C14_ReasonsOfValidateShorts ==
    (unit.fn = "validateShorts" /\ unit.out # <<>>) =>
        LET m == unit.in.meta
            o == unit.in.options
            v == unit.out[1]
            ar == m.aspectRatio
            failed(l) ==
                CASE l = "NOT_VERTICAL" -> ~(m.height.v > m.width.v)
                  [] l = "ASPECT_RATIO_MISMATCH" ->
                        ~(/\ ~o.tolerance.nan
                          /\ 1000 * Abs(16 * ar.n - 9 * ar.d) <= o.tolerance.v * 16 * ar.d)
                  [] l = "DURATION_EXCEEDED" -> ~(m.durationSec.v <= o.maxDurationSec.v)
            Labels == <<"NOT_VERTICAL", "ASPECT_RATIO_MISMATCH", "DURATION_EXCEEDED">>
            nFailed == Cardinality({i \in 1..3 : failed(Labels[i])})
        IN /\ v.reasons = SelectSeq(Labels, failed)
           /\ \A i, j \in 1..Len(v.reasons) : v.reasons[i] = v.reasons[j] => i = j
           /\ (v.reasons = <<>>) <=> v.shortsEligible
           /\ (nFailed = 1) => Len(v.reasons) = 1
           /\ Len(v.reasons) = nFailed

\* C14 witness: a frame that is not vertical and too long got the first and
\* the last label, in this order
C14_Witness_TwoLabelsInOrder ==
    /\ unit.fn = "validateShorts"
    /\ unit.out # <<>>
    /\ unit.out[1].aspectOk
    /\ unit.out[1].reasons = <<"NOT_VERTICAL", "DURATION_EXCEEDED">>

\* C15: under every interleaving of the requests, no two live requests
\* have the same workspace directory, and a step in which one request
\* cleans up leaves the directory of every other live request in place
\* with all its files unchanged.
C15_WorkspacesDisjoint ==
    /\ [](\A r, q \in 1..NumReq :
            (r # q /\ Live(conc.reqs[r]) /\ Live(conc.reqs[q]))
                => conc.reqs[r].dir # conc.reqs[q].dir)
    /\ [][\A r \in 1..NumReq :
            (Live(conc.reqs[r]) /\ conc'.last.op = "cleanup" /\ conc'.last.r # r)
                => /\ conc.reqs[r].dir \in DOMAIN conc'.root
                   /\ conc'.root[conc.reqs[r].dir] = conc.root[conc.reqs[r].dir]]_vars

\* C15 witness: request 1 has just cleaned up while request 2 is live with
\* its staged upload and its transcoder output on disk
C15_Witness_CleanupBesideLiveRequest ==
    /\ conc.last = [r |-> 1, op |-> "cleanup"]
    /\ conc.reqs[2].pc = "converted"
    /\ conc.reqs[2].dir \in DOMAIN conc.root
    /\ DOMAIN conc.root[conc.reqs[2].dir] = {S_a_mp4, S_output_mp4}
    /\ conc.reqs[1].dir \notin DOMAIN conc.root

\* C16: in a Process request the prober is started only by the handler
\* that holds the staged upload; the transcoder is started only in the step
\* in which the probe delivered metadata and the evaluation was made;
\* success headers and body chunks exist only once a needed transcode has
\* resolved; the workspace is cleaned up only after the stream has ended
\* or failed, or on the way to an error response; and after an error
\* response nothing is started, opened or sent.
C16_StagesInOrder ==
    /\ [][(route = "process" /\ spawns'.ffprobe > spawns.ffprobe) =>
            /\ pc = "handler"
            /\ file # <<>>
            /\ file[1].name \in DOMAIN files
            /\ spawns.ffmpeg = 0
            /\ resp.kind = "none"]_vars
    /\ [][spawns'.ffmpeg > spawns.ffmpeg =>
            /\ pc = "probing"
            /\ spawns.ffprobe = 1
            /\ meta = <<>> /\ meta' # <<>>
            /\ validation' # <<>>
            /\ resp.kind = "none"]_vars
    /\ []((route = "process" /\ (resp.kind = "stream" \/ stream.state # "none")) =>
            /\ resp.kind = "stream"
            /\ validation # <<>>
            /\ spawns.ffmpeg >= 1 => (ff.promise = "resolved" /\ outcome.converted))
    /\ []((route = "process" /\ stream.sent > 0) => resp.headers # <<>>)
    /\ []((route = "process" /\ rm.calls > 0) =>
            \/ resp.kind = "error"
            \/ stream.state \in {"ended", "errored"})
    /\ [][(route = "process" /\ resp.kind = "error") =>
            /\ spawns' = spawns
            /\ stream' = stream /\ stream.state = "none"
            /\ resp' = resp
            /\ ff'.promise = ff.promise]_vars

\* C16 witness: a request went through staging, probe, evaluation,
\* transcode, emission of the whole output and cleanup
C16_Witness_AllStagesRan ==
    /\ ProcessDone
    /\ spawns = [ffprobe |-> 1, ffmpeg |-> 1]
    /\ ff.promise = "resolved"
    /\ stream.state = "ended"
    /\ stream.content = "transcoded"
    /\ resp.complete
    /\ rm.calls = 1

\* C17: rmDirRecursive never throws; on an absent directory it changes
\* nothing; and when the removal of an entry fails, every entry whose
\* removal does not fail is removed all the same.
C17_DestroyNeverThrows ==
    (unit.fn = "rmDirRecursive" /\ unit.out # <<>>) =>
        LET first == unit.out[1].first
            failing == unit.in.failing
            RECURSIVE OnlyFailing(_)
            OnlyFailing(entries) ==
                \A i \in 1..Len(entries) :
                    \/ entries[i].name \in failing
                    \/ /\ entries[i].kind = "dir"
                       /\ entries[i].entries # <<>>
                       /\ OnlyFailing(entries[i].entries)
        IN /\ ~first.threw
           /\ ~unit.out[1].second.threw
           /\ ~unit.in.dir.exists => first.dir = unit.in.dir
           /\ OnlyFailing(first.dir.entries)

\* C18: a request of either endpoint whose prober process could not be
\* started ends with the classification PROBE_UNAVAILABLE, and
\* PROBE_FAILED is given only to a prober that ran and exited non-zero or
\* produced unusable output.
C18_SpawnFailureReportsProbeUnavailable ==
    (pc = "done" /\ resp.kind = "error" /\ spawns.ffprobe = 1 /\ meta = <<>>) =>
        /\ resp.msg = MsgProbeSpawnFailed => resp.error = "PROBE_UNAVAILABLE"
        /\ resp.error = "PROBE_FAILED" => resp.msg # MsgProbeSpawnFailed

\* C19: the effective transcode timeout is the default 600 s when
\* FFMPEG_TIMEOUT_SEC is unset, empty or not a number, and otherwise the
\* configured integer clamped into [60, 3600]: 60 for a value below 60,
\* 3600 for a value above 3600.
C19_TimeoutClampedInto60To3600 ==
    (unit.fn = "getFfmpegTimeoutSec" /\ unit.out # <<>>) =>
        LET n == parseInt10(unit.in.s)
            result == unit.out[1]
        IN IF ~unit.in.set \/ unit.in.s = <<>> \/ n.nan THEN result = 600
           ELSE IF n.v < 60 THEN result = 60
           ELSE IF n.v > 3600 THEN result = 3600
           ELSE result = n.v

\* C20: for every upload name the file name put into Content-Disposition,
\* with or without the shorts_ prefix, consists of characters of
\* [A-Za-z0-9._-] and is at most 200 characters long; sanitizeFilename
\* returns at most 200 such characters, and 'video' for the empty name.
C20_DispositionFilenameIsSafe ==
    (unit.fn = "dispositionFilename" /\ unit.out # <<>>) =>
        LET Safe(s) == /\ \A i \in 1..Len(s) : s[i] \in SafeChars
                       /\ Len(s) <= SANITIZE_MAX_LEN
        IN /\ Safe(unit.out[1].sanitized)
           /\ unit.out[1].sanitized # <<>>
           /\ unit.in = <<>> => unit.out[1].sanitized = S_video
           /\ Safe(unit.out[1].original)
           /\ Safe(unit.out[1].shorts)

\* C21: on the success path of a Process request, while the file stream is
\* open the workspace is present with the chosen output file in it and no
\* destruction has been called; a destruction is called only in the step in
\* which the stream reports 'end' or 'error'.
C21_DestructionDeferredToStreamEnd ==
    /\ []((route = "process" /\ resp.kind = "stream" /\ stream.state = "open") =>
            /\ pc = "streaming"
            /\ dirExists
            /\ stream.path \in DOMAIN files
            /\ files[stream.path] = stream.content
            /\ rm.calls = 0)
    /\ [][(route = "process" /\ resp'.kind = "stream" /\ rm' # rm) =>
            /\ stream.state = "open"
            /\ stream'.state \in {"ended", "errored"}]_vars

\* C21 witness: the handler has returned and every chunk has gone out, the
\* stream has not yet reported 'end', and the workspace is still there
C21_Witness_WorkspaceKeptWhileStreaming ==
    /\ route = "process"
    /\ stream.state = "open"
    /\ stream.sent = StreamChunks
    /\ outcome.converted
    /\ dirExists
    /\ outputPath \in DOMAIN files

\* C22: in a request of either endpoint the prober is started at most once
\* and the transcoder at most once, and once the probe has failed or
\* convertToShorts has rejected, no process is started any more.
C22_AtMostOneProbeAndOneTranscode ==
    /\ [](spawns.ffprobe <= 1 /\ spawns.ffmpeg <= 1)
    /\ [](spawns.ffmpeg = 1 => spawns.ffprobe = 1)
    /\ [][(ProbeFailure \/ ff.promise = "rejected") => spawns' = spawns]_vars

\* C22 witness: the transcoder exited non-zero and the request ended after
\* one probe and one transcode
C22_Witness_FailedTranscodeNotRetried ==
    /\ ProcessDone
    /\ ff.decidedBy = "close"
    /\ ff.exit = "nonzero"
    /\ resp.kind = "error"
    /\ spawns = [ffprobe |-> 1, ffmpeg |-> 1]

\* C23: every convertToShorts invocation eventually resolves or rejects,
\* also when the transcoder never exits on its own; when the timeout acts
\* it sends SIGKILL and the call is rejected; and a Process request that has
\* reached the transcode step eventually has a response.
C23_ConvertEventuallySettles ==
    /\ (ff.promise = "pending") ~> (ff.promise \in {"resolved", "rejected"})
    /\ [](ff.timeoutActed => (ff.kills >= 1 /\ ff.promise = "rejected"))
    /\ (route = "process" /\ pc = "converting") ~> (resp.kind # "none")

\* C23 witness: the transcoder never exited on its own, the timeout killed
\* it, and the request was answered
C23_Witness_HungTranscoderKilled ==
    /\ ProcessDone
    /\ ff.timeoutActed
    /\ ff.exit = "signal"
    /\ ~ff.alive
    /\ resp.kind = "error"

\* C24: for a prober that exited 0 with parseable output, getVideoMetadata
\* fails with the probe failure "no video stream" when no video stream
\* reports both a width and a height, and otherwise succeeds with the width
\* and the height of one video stream that reports both, whatever streams
\* the output lists in whatever order.
C24_DimensionsOfAStreamThatHasBoth ==
    (unit.fn = "getVideoMetadata" /\ unit.out # <<>>) =>
        LET ss == unit.in.json[1].streams
            got == unit.out[1]
            both == {i \in 1..Len(ss) :
                        /\ ss[i].codec_type = "video"
                        /\ ss[i].width # <<>> /\ ss[i].width[1] # 0
                        /\ ss[i].height # <<>> /\ ss[i].height[1] # 0}
        IN IF both = {}
           THEN ~got.ok /\ got.msg = MsgProbeNoVideo
           ELSE /\ got.ok
                /\ \E i \in both : /\ got.meta[1].width = Num(ss[i].width[1])
                                   /\ got.meta[1].height = Num(ss[i].height[1])

\* C25: when getVideoMetadata succeeds, the duration it returns is the own
\* duration of the video stream whose dimensions it returns when that is
\* present and positive, and the container's duration when the stream's is
\* absent or not positive and the container has one; hasAudio is true
\* exactly when some stream has codec type audio.
C25_DurationFallbackAndAudioFlag ==
    (unit.fn = "getVideoMetadata" /\ unit.out # <<>> /\ unit.out[1].ok) =>
        LET ss == unit.in.json[1].streams
            fd == unit.in.json[1].format.duration
            m == unit.out[1].meta[1]
            last == Max({i \in 1..Len(ss) : ss[i].codec_type = "video"})
            own == ss[last].duration
        IN /\ (own # <<>> /\ own[1] > 0) => m.durationSec = Num(own[1])
           /\ ((own = <<>> \/ own[1] <= 0) /\ fd # <<>>) => m.durationSec = Num(fd[1])
           /\ m.hasAudio = (\E i \in 1..Len(ss) : ss[i].codec_type = "audio")

\* C25 witness: the video stream reports the duration 0, the container 90,
\* and an audio stream follows the video stream
C25_Witness_ZeroDurationFallsBack ==
    /\ unit.fn = "getVideoMetadata"
    /\ unit.out # <<>>
    /\ unit.in.json[1].streams =
          <<Stream("video", <<1080>>, <<1920>>, <<0>>), Stream("audio", <<>>, <<>>, <<30>>)>>
    /\ unit.in.json[1].format.duration = <<90>>
    /\ unit.out[1].ok
    /\ unit.out[1].meta[1].durationSec = Num(90)
    /\ unit.out[1].meta[1].hasAudio

\* C26: for every request body parseProcessOptions returns targetWidth and
\* targetHeight in [1, 4096], maxDurationSec in [1, 300], tolerance in
\* [0.001, 0.5], a mode that is pad or blur and a boolean forceConvert.
C26_OptionsWithinBounds ==
    (unit.fn = "parseProcessOptions" /\ unit.out # <<>>) =>
        LET o == unit.out[1]
            Within(x, lo, hi) == ~x.nan /\ lo <= x.v /\ x.v <= hi
        IN /\ Within(o.targetWidth, 1, 4096)
           /\ Within(o.targetHeight, 1, 4096)
           /\ Within(o.maxDurationSec, 1, 300)
           /\ Within(o.tolerance, 1, 500)
           /\ o.mode \in {"pad", "blur"}
           /\ o.forceConvert \in BOOLEAN

\* C27: the message of a prober failure and of a transcoder failure carries
\* at most 2000 characters of the captured stderr, however much the tool
\* wrote.
C27_StderrInMessageIsBounded ==
    (unit.fn = "exitMessage" /\ unit.out # <<>>) =>
        /\ unit.out[1] <= 2000
        /\ unit.out[1] <= unit.in.stderrLen

\* C28: in a Process request that converts, the output path given to the
\* transcoder differs from the path of the staged input, whatever name the
\* upload had, and when the conversion has resolved the workspace holds the
\* staged input and the output as two files.
C28_OutputPathDiffersFromInput ==
    (route = "process" /\ spawns.ffmpeg >= 1) =>
        /\ file[1].name # outputPath
        /\ (ff.promise = "resolved" /\ pc = "converting") =>
              /\ file[1].name \in DOMAIN files
              /\ outputPath \in DOMAIN files
              /\ files[file[1].name] = "upload"

====
